---- MODULE Spec2Model ----
(***************************************************************************)
(* Simulation control and broadcast service of src/src/ui/backend/main.py. *)
(*                                                                         *)
(* The service runs on one asyncio event loop.  A coroutine runs without   *)
(* interruption from one await that suspends to the next, so every action  *)
(* below is the code of one coroutine between two suspension points.  The  *)
(* only awaits of the simulation controller are the send_text calls inside *)
(* ConnectionManager.broadcast: market_simulator.run_simulation is called  *)
(* synchronously (main.py:426) and never yields.                           *)
(***************************************************************************)
EXTENDS Integers, Sequences, FiniteSets, TLC

(* ---------------------------------------------------------------- bounds *)
MaxHandlers == 2
MaxTasks == 2
MaxConns == 2
MaxStarts == 2
MaxClock == 2
TicksPerSecond == 2
MaxTrades == 2
MaxTs == 2

(* ------------------------------------------------------ program constants *)
HistoryCap == 50
TradeCap == 50
NoTime == -1

Symbols == {"AAPL"}
AllSymbols == {"AAPL", "GOOGL"}
Timestamps == 1..MaxTs
Handlers == 1..MaxHandlers
SimIds == 0..(MaxClock \div TicksPerSecond)

VARIABLES
    market_simulator,    \* main.py:78   TRUE once startup_event has set it
    now,                 \* time.time(), in clock ticks
    n_started,           \* number of tasks created by start_simulation so far
    active_simulations,  \* main.py:81   sim_id -> entry
    run_history,         \* main.py:82   list of summaries
    last_trade_ts,       \* main.py:84   symbol -> cursor
    active_connections,  \* main.py:143  manager.active_connections
    n_conn,              \* number of websockets accepted so far
    tasks,               \* live run_simulation tasks: task -> frame
    ready,               \* event loop's FIFO of tasks that have not run yet
    handlers,            \* request handlers suspended in a broadcast
    response,            \* the last response a request handler has returned
    broken,              \* websockets whose send_text raises
    order_books,         \* market_simulator.order_books.keys(), in dict order
    ob_kind,             \* which methods the engine's order books have
    trade_log,           \* symbol -> the order book's trades (timestamps)
    handed,              \* symbol -> per trade, in how many cycles it was
                         \* handed to broadcast as a trade event (0, 1, 2 = more)
    bl,                  \* the broadcast_snapshots_task coroutine
    sd                   \* the shutdown_event coroutine

vars == <<market_simulator, now, n_started, active_simulations, run_history,
          last_trade_ts, active_connections, n_conn, tasks, ready, handlers,
          response, broken, order_books, ob_kind, trade_log, handed, bl, sd>>

\* what the simulation controller and the connection handlers leave alone
xvars == <<broken, order_books, ob_kind, trade_log, handed, bl, sd>>

(* --------------------------------------------------------------- helpers *)
Range(s) == {s[i] : i \in 1..Len(s)}

Without(f, k) == [x \in DOMAIN f \ {k} |-> f[x]]

Put(f, k, v) == (k :> v) @@ f

RemoveFirst(s, c) ==
    LET i == CHOOSE j \in 1..Len(s) : s[j] = c /\ \A k \in 1..(j - 1) : s[k] # c
    IN  [j \in 1..(Len(s) - 1) |-> IF j < i THEN s[j] ELSE s[j + 1]]

\* sim_id = f"sim_{int(time.time())}": the clock truncated to whole seconds
SimId(t) == t \div TicksPerSecond

NoBroadcast ==
    [msg |-> <<>>, idx |-> 0, got |-> {}, failed |-> {}, bstart |-> {}]

NoSimulation ==
    [task |-> 0, start_time |-> NoTime, status |-> "None",
     results |-> "None", error |-> "None"]

IdleHandler ==
    [pc |-> "idle", op |-> "None", sim_id |-> NoTime,
     simulation |-> NoSimulation, b |-> NoBroadcast]

NoResponse == [op |-> "None", sim_id |-> NoTime, resp |-> "None"]

\* the elements of a finite set of integers in ascending order
RECURSIVE Asc(_)
Asc(S) ==
    IF S = {} THEN <<>>
    ELSE LET x == CHOOSE y \in S : \A z \in S : y <= z
         IN  <<x>> \o Asc(S \ {x})

Max(S) == CHOOSE y \in S : \A z \in S : z <= y

\* what is known of one symbol in the broadcaster's current cycle: whether
\* its snapshot was broadcast and its trades fetched, the cursor c0 the fetch
\* used, the number n and greatest timestamp mx of the trades of the log
\* above c0 at the fetch, and the trade events handed to broadcast since
NoCycle ==
    [snap |-> FALSE, fetched |-> FALSE, c0 |-> 0, n |-> 0, mx |-> 0,
     events |-> 0, done |-> FALSE]

\* broadcast_snapshots_task before startup has created it
NoLoop ==
    [pc |-> "none", syms |-> <<>>, size0 |-> 0, sym |-> "None", todo |-> <<>>,
     b |-> NoBroadcast, raised |-> "None", cy |-> <<>>]

\* shutdown_event before it is called
NoShutdown ==
    [pc |-> "none", ids |-> <<>>, b |-> NoBroadcast, reg |-> {}, closed |-> {},
     entries |-> {}]

(* ------------------------------------------- ConnectionManager.broadcast *)
\* entering `for connection in self.active_connections`: a list iterator at 0
broadcast_begin(msg) ==
    [msg |-> msg, idx |-> 0, got |-> {}, failed |-> {},
     bstart |-> Range(active_connections)]

\* a broadcast without the try/except around send_text: the first send
\* that raises ends the loop over the connections
broadcast_more_abort(b) == b.idx < Len(active_connections) /\ b.failed = {}

\* the list iterator has a next element (it reads the live list)
broadcast_more(b) == b.idx < Len(active_connections)

\* next(iterator) and `await connection.send_text(message)`; a send that
\* raises is caught and logged
broadcast_send(b) ==
    [b EXCEPT !.idx = @ + 1,
              !.got = @ \cup {active_connections[b.idx + 1]},
              !.failed = @ \cup ({active_connections[b.idx + 1]} \cap broken)]

(* ------------------------------------------------------------------ Init *)
InitBooks(kinds) ==
    /\ market_simulator = FALSE
    /\ now = 0
    /\ n_started = 0
    /\ active_simulations = <<>>
    /\ run_history = <<>>
    /\ last_trade_ts = <<>>
    /\ active_connections = <<>>
    /\ n_conn = 0
    /\ tasks = <<>>
    /\ ready = <<>>
    /\ handlers = [h \in Handlers |-> IdleHandler]
    /\ response = NoResponse
    /\ broken = {}
    /\ order_books = <<>>
    /\ ob_kind \in kinds
    /\ trade_log = [s \in AllSymbols |-> <<>>]
    /\ handed = [s \in AllSymbols |-> <<>>]
    /\ bl = NoLoop
    /\ sd = NoShutdown

\* the engine's order books have get_trades_since
Init == InitBooks({"since"})

(* --------------------------------------------------------------- actions *)
startup_event ==
    /\ ~market_simulator
    /\ market_simulator' = TRUE
    /\ order_books' = <<"AAPL">>
    /\ last_trade_ts' = [s \in Symbols |-> 0]
    /\ bl' = [NoLoop EXCEPT !.pc = "sleep"]
    /\ UNCHANGED <<now, n_started, active_simulations, run_history,
                   active_connections, n_conn, tasks, ready, handlers, response,
                   broken, ob_kind, trade_log, handed, sd>>

Tick ==
    /\ now < MaxClock
    /\ now' = now + 1
    /\ UNCHANGED <<market_simulator, n_started, active_simulations, run_history,
                   last_trade_ts, active_connections, n_conn, tasks, ready,
                   handlers, response,
                   xvars>>

connect ==
    /\ market_simulator
    /\ n_conn < MaxConns
    /\ n_conn' = n_conn + 1
    /\ active_connections' = Append(active_connections, n_conn + 1)
    /\ UNCHANGED <<market_simulator, now, n_started, active_simulations,
                   run_history, last_trade_ts, tasks, ready, handlers, response,
                   xvars>>

disconnect(c) ==
    /\ c \in Range(active_connections)
    /\ active_connections' = RemoveFirst(active_connections, c)
    /\ UNCHANGED <<market_simulator, now, n_started, active_simulations,
                   run_history, last_trade_ts, n_conn, tasks, ready, handlers, response,
                   xvars>>

\* manager.connect(websocket) for a websocket that is registered already and
\* whose accept() returns: the list gets it once more.  (When accept() raises
\* nothing changes.)
connect_registered(c) ==
    /\ c \in Range(active_connections)
    /\ Len(active_connections) < MaxConns
    /\ active_connections' = Append(active_connections, c)
    /\ UNCHANGED <<market_simulator, now, n_started, active_simulations,
                   run_history, last_trade_ts, n_conn, tasks, ready, handlers,
                   response,
                   xvars>>

\* the coroutine slot a new request runs in
IsFree(h) ==
    /\ handlers[h].pc = "idle"
    /\ \A k \in Handlers : k < h => handlers[k].pc # "idle"

\* a handler that has called manager.broadcast(msg): it runs to the first send
\* that suspends, or to its return when there is no connection to send to
AfterBroadcast(h, op, sim_id, simulation, resp, b) ==
    IF broadcast_more(b)
    THEN /\ handlers' = [handlers EXCEPT ![h] =
                [pc |-> "bcast", op |-> op, sim_id |-> sim_id,
                 simulation |-> simulation, b |-> broadcast_send(b)]]
         /\ UNCHANGED response
    ELSE /\ handlers' = [handlers EXCEPT ![h] = IdleHandler]
         /\ response' = [op |-> op, sim_id |-> sim_id, resp |-> resp]

start_simulation(h, limit) ==
    /\ IsFree(h)
    /\ market_simulator
    /\ n_started < limit
    /\ Cardinality(DOMAIN tasks) < MaxTasks
    /\ LET sim_id == SimId(now)
           t == n_started + 1
           entry == [task |-> t, start_time |-> now, status |-> "running",
                     results |-> "None", error |-> "None"]
       IN  /\ n_started' = t
           /\ tasks' = Put(tasks, t, [sim_id |-> sim_id, pc |-> "pending",
                                      must_cancel |-> FALSE, b |-> NoBroadcast])
           /\ ready' = Append(ready, t)
           /\ active_simulations' = Put(active_simulations, sim_id, entry)
           /\ AfterBroadcast(h, "start", sim_id, NoSimulation, "running",
                  broadcast_begin(<<"simulation_started", sim_id>>))
    /\ UNCHANGED <<market_simulator, now, run_history, last_trade_ts,
                   active_connections, n_conn,
                   xvars>>

\* stop_not_found without its 404: the stop goes on for an id that is not
\* active, as with active_simulations.pop(sim_id, None)
stop_not_found_lenient(h, sim_id) ==
    /\ IsFree(h)
    /\ market_simulator
    /\ sim_id \notin DOMAIN active_simulations
    /\ AfterBroadcast(h, "stop", sim_id, NoSimulation, "stopped",
           broadcast_begin(<<"simulation_stopped", sim_id>>))
    /\ UNCHANGED <<market_simulator, now, n_started, active_simulations,
                   run_history, last_trade_ts, active_connections, n_conn,
                   tasks, ready,
                   xvars>>

stop_not_found(h, sim_id) ==
    /\ IsFree(h)
    /\ market_simulator
    /\ sim_id \notin DOMAIN active_simulations
    /\ response' = [op |-> "stop", sim_id |-> sim_id, resp |-> "404"]
    /\ UNCHANGED <<market_simulator, now, n_started, active_simulations,
                   run_history, last_trade_ts, active_connections, n_conn,
                   tasks, ready, handlers,
                   xvars>>

\* Task.cancel(): a task that is done ignores it
cancel(t) ==
    IF t \in DOMAIN tasks THEN [tasks EXCEPT ![t].must_cancel = TRUE] ELSE tasks

stop_simulation(h, sim_id) ==
    /\ IsFree(h)
    /\ market_simulator
    /\ sim_id \in DOMAIN active_simulations
    /\ LET simulation == active_simulations[sim_id]
       IN  /\ tasks' = cancel(simulation.task)
           /\ active_simulations' = Without(active_simulations, sim_id)
           /\ AfterBroadcast(h, "stop", sim_id,
                  [simulation EXCEPT !.status = "stopped"], "stopped",
                  broadcast_begin(<<"simulation_stopped", sim_id>>))
    /\ UNCHANGED <<market_simulator, now, n_started, run_history, last_trade_ts,
                   active_connections, n_conn, ready,
                   xvars>>

\* what the status query answers in the current state (it changes nothing)
get_simulation_status(sim_id) ==
    IF sim_id \notin DOMAIN active_simulations
    THEN "404"
    ELSE active_simulations[sim_id].status

\* a slice that is taken back to front: s[:-n-1:-1]
LastNReversed(s, n) ==
    LET m == IF Len(s) <= n THEN Len(s) ELSE n
    IN  [i \in 1..m |-> s[Len(s) - i + 1]]

\* a slice that keeps the whole list
WholeList(s, n) == s

\* the last n elements of a list: s[-n:]
LastN(s, n) ==
    IF Len(s) <= n THEN s ELSE SubSeq(s, Len(s) - n + 1, Len(s))

\* what the history query answers in the current state (it changes nothing)
get_simulation_history == LastN(run_history, HistoryCap)

\* GET /api/simulation/history?limit=L: the handler declares no parameter,
\* so a limit in the query string is not read
history_query(limit) == get_simulation_history

\* a handler resumes from a send of its broadcast
handler_broadcast_step(h) ==
    /\ handlers[h].pc = "bcast"
    /\ IF broadcast_more(handlers[h].b)
       THEN /\ handlers' = [handlers EXCEPT ![h].b = broadcast_send(handlers[h].b)]
            /\ UNCHANGED response
       ELSE /\ handlers' = [handlers EXCEPT ![h] = IdleHandler]
            /\ response' = [op |-> handlers[h].op, sim_id |-> handlers[h].sim_id,
                            resp |-> IF handlers[h].op = "start" THEN "running"
                                                                 ELSE "stopped"]
    /\ UNCHANGED <<market_simulator, now, n_started, active_simulations,
                   run_history, last_trade_ts, active_connections, n_conn,
                   tasks, ready,
                   xvars>>

(* ------------------------------------------------- run_simulation (task) *)
IsNext(t) == ready # <<>> /\ Head(ready) = t

\* the task's first step: RunSimulation returns its results
run_simulation_returns(t) ==
    /\ t \in DOMAIN tasks
    /\ tasks[t].pc = "pending"
    /\ IsNext(t)
    /\ ~tasks[t].must_cancel
    /\ LET sim_id == tasks[t].sim_id
           summary == [simulation_id |-> sim_id,
                       started_at |-> IF sim_id \in DOMAIN active_simulations
                                      THEN active_simulations[sim_id].start_time
                                      ELSE NoTime,
                       results |-> "results"]
           b == broadcast_begin(<<"simulation_completed", sim_id>>)
       IN  /\ active_simulations' =
                  IF sim_id \in DOMAIN active_simulations
                  THEN [active_simulations EXCEPT ![sim_id].status = "completed",
                                                  ![sim_id].results = "results"]
                  ELSE active_simulations
           /\ run_history' = Append(run_history, summary)
           /\ tasks' = IF broadcast_more(b)
                       THEN [tasks EXCEPT ![t].pc = "bcast",
                                          ![t].b = broadcast_send(b)]
                       ELSE Without(tasks, t)
    /\ ready' = Tail(ready)
    /\ UNCHANGED <<market_simulator, now, n_started, last_trade_ts,
                   active_connections, n_conn, handlers, response,
                   xvars>>

\* the task's first step: RunSimulation raises
run_simulation_raises(t) ==
    /\ t \in DOMAIN tasks
    /\ tasks[t].pc = "pending"
    /\ IsNext(t)
    /\ ~tasks[t].must_cancel
    /\ LET sim_id == tasks[t].sim_id
       IN  active_simulations' =
               IF sim_id \in DOMAIN active_simulations
               THEN [active_simulations EXCEPT ![sim_id].status = "error",
                                               ![sim_id].error = "msg"]
               ELSE active_simulations
    /\ tasks' = Without(tasks, t)
    /\ ready' = Tail(ready)
    /\ UNCHANGED <<market_simulator, now, n_started, run_history, last_trade_ts,
                   active_connections, n_conn, handlers, response,
                   xvars>>

\* the task's first step: RunSimulation returns results that json.dumps
\* (main.py:447) cannot serialise.  Lines 432-444 have run; the TypeError is
\* caught by `except Exception` (457-461) and broadcast is never called.
run_simulation_dumps_raises(t) ==
    /\ t \in DOMAIN tasks
    /\ tasks[t].pc = "pending"
    /\ IsNext(t)
    /\ ~tasks[t].must_cancel
    /\ LET sim_id == tasks[t].sim_id
           summary == [simulation_id |-> sim_id,
                       started_at |-> IF sim_id \in DOMAIN active_simulations
                                      THEN active_simulations[sim_id].start_time
                                      ELSE NoTime,
                       results |-> "results"]
       IN  /\ active_simulations' =
                  IF sim_id \in DOMAIN active_simulations
                  THEN [active_simulations EXCEPT ![sim_id].status = "error",
                                                  ![sim_id].results = "results",
                                                  ![sim_id].error = "msg"]
                  ELSE active_simulations
           /\ run_history' = Append(run_history, summary)
    /\ tasks' = Without(tasks, t)
    /\ ready' = Tail(ready)
    /\ UNCHANGED <<market_simulator, now, n_started, last_trade_ts,
                   active_connections, n_conn, handlers, response,
                   xvars>>

\* the task resumes from a send of its simulation_completed broadcast
run_simulation_broadcast_step(t) ==
    /\ t \in DOMAIN tasks
    /\ tasks[t].pc = "bcast"
    /\ ~tasks[t].must_cancel
    /\ tasks' = IF broadcast_more(tasks[t].b)
                THEN [tasks EXCEPT ![t].b = broadcast_send(tasks[t].b)]
                ELSE Without(tasks, t)
    /\ UNCHANGED <<market_simulator, now, n_started, active_simulations,
                   run_history, last_trade_ts, active_connections, n_conn,
                   ready, handlers, response,
                   xvars>>

\* CancelledError is thrown into the task: before its first step, or at the
\* send it is suspended in
run_simulation_cancelled(t) ==
    /\ t \in DOMAIN tasks
    /\ tasks[t].must_cancel
    /\ tasks[t].pc = "pending" => IsNext(t)
    /\ tasks' = Without(tasks, t)
    /\ ready' = IF tasks[t].pc = "pending" THEN Tail(ready) ELSE ready
    /\ UNCHANGED <<market_simulator, now, n_started, active_simulations,
                   run_history, last_trade_ts, active_connections, n_conn,
                   handlers, response,
                   xvars>>

(* -------------------------------------------------------- shutdown_event *)
\* main.py:85: the module-level list; nothing in main.py appends to it
websocket_connections == <<>>

\* simulation["task"].cancel() on the tasks tks
cancel_in(tks, t) ==
    IF t \in DOMAIN tks THEN [tks EXCEPT ![t].must_cancel = TRUE] ELSE tks

\* `for sim_id in list(active_simulations.keys()): await stop_simulation(sim_id)`
\* from its current place up to the next send_text that suspends, or to the
\* end of shutdown_event.  v holds the coroutine's frame s, the active table
\* act and the tasks tks.  stop_simulation raises HTTPException(404) for an
\* id that is no longer in the table, and shutdown_event catches nothing.
RECURSIVE SRun(_)
SRun(v) ==
    IF v.s.ids = <<>> THEN [v EXCEPT !.s.pc = "done"]
    ELSE LET sim_id == Head(v.s.ids)
         IN  IF sim_id \notin DOMAIN v.act
             THEN [v EXCEPT !.s.pc = "failed"]
             ELSE LET b  == broadcast_begin(<<"simulation_stopped", sim_id>>)
                      v1 == [v EXCEPT
                               !.tks = cancel_in(v.tks, v.act[sim_id].task),
                               !.act = Without(v.act, sim_id),
                               !.s.ids = Tail(v.s.ids)]
                  IN  IF broadcast_more(b)
                      THEN [v1 EXCEPT !.s.pc = "stop",
                                      !.s.b = broadcast_send(b)]
                      ELSE SRun(v1)

\* The server calls shutdown_event.  The loop over websocket_connections
\* calls close on each of its elements; the keys of the active table are
\* taken in insertion order, which is the order of the ids.  reg and entries
\* keep what was registered and what was active at this moment.
shutdown_event ==
    /\ market_simulator
    /\ sd.pc = "none"
    /\ LET s0 == [sd EXCEPT
                    !.reg = Range(active_connections),
                    !.closed = Range(websocket_connections),
                    !.ids = Asc(DOMAIN active_simulations),
                    !.entries = {active_simulations[id].task :
                                    id \in DOMAIN active_simulations}]
           v  == SRun([s |-> s0, act |-> active_simulations, tks |-> tasks])
       IN  /\ sd' = v.s
           /\ active_simulations' = v.act
           /\ tasks' = v.tks
    /\ UNCHANGED <<market_simulator, now, n_started, run_history, last_trade_ts,
                   active_connections, n_conn, ready, handlers, response,
                   broken, order_books, ob_kind, trade_log, handed, bl>>

\* shutdown_event resumes from a send of stop_simulation's broadcast
shutdown_step ==
    /\ sd.pc = "stop"
    /\ LET v == IF broadcast_more(sd.b)
                THEN [s |-> [sd EXCEPT !.b = broadcast_send(sd.b)],
                      act |-> active_simulations, tks |-> tasks]
                ELSE SRun([s |-> [sd EXCEPT !.b = NoBroadcast],
                           act |-> active_simulations, tks |-> tasks])
       IN  /\ sd' = v.s
           /\ active_simulations' = v.act
           /\ tasks' = v.tks
    /\ UNCHANGED <<market_simulator, now, n_started, run_history, last_trade_ts,
                   active_connections, n_conn, ready, handlers, response,
                   broken, order_books, ob_kind, trade_log, handed, bl>>

(* ---------------------------------------- the market engine's order books *)
\* the engine gets an order book for one more symbol
engine_adds_symbol(s) ==
    /\ market_simulator
    /\ s \notin Range(order_books)
    /\ order_books' = Append(order_books, s)
    /\ UNCHANGED <<market_simulator, now, n_started, active_simulations,
                   run_history, last_trade_ts, active_connections, n_conn,
                   tasks, ready, handlers, response,
                   broken, ob_kind, trade_log, handed, bl, sd>>

\* the order book of s records a trade with timestamp ts: its log only grows
record_trade(s, ts, limit) ==
    /\ s \in Range(order_books)
    /\ Len(trade_log[s]) < limit
    /\ trade_log' = [trade_log EXCEPT ![s] = Append(trade_log[s], ts)]
    /\ handed' = [handed EXCEPT ![s] = Append(handed[s], 0)]
    /\ UNCHANGED <<market_simulator, now, n_started, active_simulations,
                   run_history, last_trade_ts, active_connections, n_conn,
                   tasks, ready, handlers, response,
                   broken, order_books, ob_kind, bl, sd>>

\* the trades of s (positions in its log) with a timestamp above since
NewTrades(s, since) ==
    {i \in 1..Len(trade_log[s]) : trade_log[s][i] > since}

\* ob.get_trades_since(since)
get_trades_since(s, since) == Asc(NewTrades(s, since))

\* ob.get_trades()
get_trades(s) == [i \in 1..Len(trade_log[s]) |-> i]

\* a websocket goes bad: every later send_text on it raises
break_connection(c) ==
    /\ c \in Range(active_connections)
    /\ c \notin broken
    /\ broken' = broken \cup {c}
    /\ UNCHANGED <<market_simulator, now, n_started, active_simulations,
                   run_history, last_trade_ts, active_connections, n_conn,
                   tasks, ready, handlers, response,
                   order_books, ob_kind, trade_log, handed, bl, sd>>

(* ------------------------------------------------- broadcast_snapshots_task *)
\* last_trade_ts.get(sym, 0)
Cursor(ts, s) == IF s \in DOMAIN ts THEN ts[s] ELSE 0

\* main.py:491-498: the trades the loop takes from the order book.  An order
\* book of kind "since" has get_trades_since, one of kind "plain" has only
\* get_trades and the loop filters its result, one of kind "stale" has a
\* get_trades_since that returns the trades ret[s] whatever since is.
fetch_trades(s, since, ret) ==
    CASE ob_kind = "since" -> get_trades_since(s, since)
      [] ob_kind = "stale" -> Asc(ret[s] \cap (1..Len(trade_log[s])))
      [] ob_kind = "plain" ->
            SelectSeq(get_trades(s), LAMBDA i : trade_log[s][i] > since)
      [] OTHER -> <<>>

\* max(getattr(t, 'timestamp', 0) for t in trades)
max_timestamp(s, trades) ==
    Max({trade_log[s][trades[k]] : k \in 1..Len(trades)})

\* a loop that moves the cursor only of symbols that have one
advance_cursor_tracked(ts, s, trades) ==
    IF s \in DOMAIN ts THEN Put(ts, s, max_timestamp(s, trades)) ELSE ts

\* a loop that forgets to move the cursor
advance_cursor_never(ts, s, trades) == ts

\* main.py:500: the cursor of s after a fetch that returned trades
advance_cursor(ts, s, trades) == Put(ts, s, max_timestamp(s, trades))

\* a loop without the try/except: the exception ends the task
on_exception_propagates(w, what) ==
    [w EXCEPT !.l.pc = "dead", !.l.raised = what, !.l.syms = <<>>,
              !.l.todo = <<>>, !.l.b = NoBroadcast]

\* `except Exception as e: logger.error(...)`: the cycle is over, the loop
\* goes on to its sleep
on_exception(w, what) ==
    [w EXCEPT !.l.pc = "sleep", !.l.raised = what, !.l.syms = <<>>,
              !.l.todo = <<>>, !.l.b = NoBroadcast]

\* The loop body from the place w.l.pc up to the next await that suspends: a
\* send_text of a broadcast, or the sleep that ends the cycle.  w holds the
\* coroutine's frame l, the cursors ts and the hand-over counts hd; fail is
\* the symbol whose get_market_data raises ("None": no call raises); ret is
\* what a stale order book returns.
RECURSIVE BRun(_, _, _)
BRun(w, fail, ret) ==
    CASE w.l.pc = "iter" ->
           \* next(iterator) of order_books.keys()
           IF Len(order_books) # w.l.size0 THEN on_exception(w, "keys")
           ELSE IF w.l.syms = <<>>
           THEN [w EXCEPT !.l.pc = "sleep", !.l.sym = "None"]
           ELSE LET s  == Head(w.l.syms)
                    w1 == [w EXCEPT !.l.sym = s, !.l.syms = Tail(w.l.syms)]
                    b  == broadcast_begin(<<"snapshot", s>>)
                    w2 == [w1 EXCEPT !.l.cy[s].snap = TRUE]
                IN  IF fail = s THEN on_exception(w1, s)
                    ELSE IF broadcast_more(b)
                    THEN [w2 EXCEPT !.l.pc = "send_snap",
                                    !.l.b = broadcast_send(b)]
                    ELSE BRun([w2 EXCEPT !.l.pc = "fetch"], fail, ret)
      [] w.l.pc = "fetch" ->
           LET s      == w.l.sym
               since  == Cursor(w.ts, s)
               trades == fetch_trades(s, since, ret)
               new    == NewTrades(s, since)
               w1     == [w EXCEPT
                            !.l.cy[s].fetched = TRUE,
                            !.l.cy[s].c0 = since,
                            !.l.cy[s].n = Cardinality(new),
                            !.l.cy[s].mx =
                                IF new = {} THEN 0
                                ELSE Max({trade_log[s][i] : i \in new})]
           IN  IF trades # <<>>
               THEN BRun([w1 EXCEPT !.ts = advance_cursor(w.ts, s, trades),
                                    !.l.todo = LastN(trades, TradeCap),
                                    !.l.pc = "tloop"], fail, ret)
               ELSE BRun([w1 EXCEPT !.l.cy[s].done = TRUE,
                                    !.l.pc = "iter"], fail, ret)
      [] w.l.pc = "tloop" ->
           \* `for t in trades[-50:]`
           IF w.l.todo = <<>>
           THEN BRun([w EXCEPT !.l.cy[w.l.sym].done = TRUE,
                               !.l.pc = "iter"], fail, ret)
           ELSE LET s  == w.l.sym
                    i  == Head(w.l.todo)
                    b  == broadcast_begin(<<"trade", s, i>>)
                    w1 == [w EXCEPT
                             !.l.todo = Tail(w.l.todo),
                             !.l.cy[s].events = w.l.cy[s].events + 1,
                             !.hd[s][i] = IF w.hd[s][i] < 2
                                          THEN w.hd[s][i] + 1 ELSE 2]
                IN  IF broadcast_more(b)
                    THEN [w1 EXCEPT !.l.pc = "send_trade",
                                    !.l.b = broadcast_send(b)]
                    ELSE BRun(w1, fail, ret)
      [] OTHER -> w

\* the sleep is over: the next iteration of `while True`
broadcaster_wake(fail, ret) ==
    /\ bl.pc = "sleep"
    /\ LET l0 == [bl EXCEPT !.pc = "iter", !.raised = "None",
                            !.syms = order_books, !.size0 = Len(order_books),
                            !.cy = [s \in Range(order_books) |-> NoCycle]]
           w0 == [l |-> l0, ts |-> last_trade_ts, hd |-> handed]
           w  == IF market_simulator THEN BRun(w0, fail, ret)
                 ELSE [w0 EXCEPT !.l.pc = "sleep", !.l.syms = <<>>]
       IN  /\ bl' = w.l
           /\ last_trade_ts' = w.ts
           /\ handed' = w.hd
    /\ UNCHANGED <<market_simulator, now, n_started, active_simulations,
                   run_history, active_connections, n_conn, tasks, ready,
                   handlers, response,
                   broken, order_books, ob_kind, trade_log, sd>>

\* a send_text of the loop's broadcast has returned or raised
broadcaster_step(fail, ret) ==
    /\ bl.pc \in {"send_snap", "send_trade"}
    /\ LET w0 == [l |-> bl, ts |-> last_trade_ts, hd |-> handed]
           w  == IF broadcast_more(bl.b)
                 THEN [w0 EXCEPT !.l.b = broadcast_send(bl.b)]
                 ELSE BRun([w0 EXCEPT
                              !.l.b = NoBroadcast,
                              !.l.pc = IF bl.pc = "send_snap"
                                       THEN "fetch" ELSE "tloop"], fail, ret)
       IN  /\ bl' = w.l
           /\ last_trade_ts' = w.ts
           /\ handed' = w.hd
    /\ UNCHANGED <<market_simulator, now, n_started, active_simulations,
                   run_history, active_connections, n_conn, tasks, ready,
                   handlers, response,
                   broken, order_books, ob_kind, trade_log, sd>>

\* the symbol whose get_market_data raises in a step, or "None"
Fails == AllSymbols \cup {"None"}

\* what a get_trades_since that ignores its argument may return
Rets ==
    IF ob_kind = "stale" THEN [AllSymbols -> SUBSET (1..MaxTrades)]
    ELSE {[s \in AllSymbols |-> {}]}

(* ------------------------------------------------------- specifications *)
Next ==
    \/ startup_event
    \/ Tick
    \/ connect
    \/ \E c \in 1..MaxConns : disconnect(c)
    \/ \E h \in Handlers : start_simulation(h, MaxStarts)
    \/ \E h \in Handlers, id \in SimIds : stop_not_found(h, id)
    \/ \E h \in Handlers, id \in SimIds : stop_simulation(h, id)
    \/ \E h \in Handlers : handler_broadcast_step(h)
    \/ \E t \in 1..MaxStarts : run_simulation_returns(t)
    \/ \E t \in 1..MaxStarts : run_simulation_raises(t)
    \/ \E t \in 1..MaxStarts : run_simulation_broadcast_step(t)
    \/ \E t \in 1..MaxStarts : run_simulation_cancelled(t)

Spec == Init /\ [][Next]_vars

\* Simulations that are started and run to completion while no client is
\* connected and nobody stops them: enough of them to fill the history.
NextHistory ==
    \/ startup_event
    \/ Tick
    \/ \E h \in Handlers : start_simulation(h, HistoryCap + 1)
    \/ \E t \in 1..(HistoryCap + 1) : run_simulation_returns(t)

SpecHistory == Init /\ [][NextHistory]_vars

\* The connection registry under connect and disconnect calls for new and
\* for registered websockets, with the broadcaster loop sending to it.
NextRegistry ==
    \/ startup_event
    \/ connect
    \/ \E c \in 1..MaxConns : connect_registered(c)
    \/ \E c \in 1..MaxConns : disconnect(c)
    \/ \E s \in AllSymbols, ts \in Timestamps : record_trade(s, ts, MaxTrades)
    \/ \E fail \in Fails, ret \in Rets : broadcaster_wake(fail, ret)
    \/ \E fail \in Fails, ret \in Rets : broadcaster_step(fail, ret)

SpecRegistry == Init /\ [][NextRegistry]_vars

\* Shutdown while clients are connected and requests to start and stop
\* simulations are still being served.
NextShutdown ==
    \/ startup_event
    \/ Tick
    \/ connect
    \/ \E h \in Handlers : start_simulation(h, MaxStarts)
    \/ \E h \in Handlers, id \in SimIds : stop_simulation(h, id)
    \/ \E h \in Handlers : handler_broadcast_step(h)
    \/ shutdown_event
    \/ shutdown_step

SpecShutdown == Init /\ [][NextShutdown]_vars

\* Simulations that are started and run to their end, where the results
\* RunSimulation returns may be ones the simulation_completed event cannot
\* be built from.  RunSimulation itself never raises here.
NextCompletedEvent ==
    \/ startup_event
    \/ Tick
    \/ connect
    \/ \E h \in Handlers : start_simulation(h, MaxStarts)
    \/ \E h \in Handlers : handler_broadcast_step(h)
    \/ \E t \in 1..MaxStarts : run_simulation_returns(t)
    \/ \E t \in 1..MaxStarts : run_simulation_dumps_raises(t)
    \/ \E t \in 1..MaxStarts : run_simulation_broadcast_step(t)

SpecCompletedEvent == Init /\ [][NextCompletedEvent]_vars

\* The broadcaster loop with clients that come, go and break, and an engine
\* whose order books record trades, whichever of the two interfaces of
\* main.py:491-498 they have.
NextBroadcaster ==
    \/ startup_event
    \/ connect
    \/ \E c \in 1..MaxConns : disconnect(c)
    \/ \E c \in 1..MaxConns : break_connection(c)
    \/ \E s \in AllSymbols : engine_adds_symbol(s)
    \/ \E s \in AllSymbols, ts \in Timestamps : record_trade(s, ts, MaxTrades)
    \/ \E fail \in Fails, ret \in Rets : broadcaster_wake(fail, ret)
    \/ \E fail \in Fails, ret \in Rets : broadcaster_step(fail, ret)

SpecBroadcaster == InitBooks({"since", "plain"}) /\ [][NextBroadcaster]_vars

\* The broadcaster loop over an order book whose get_trades_since returns
\* trades without regard to the cursor it is given.
NextStaleBook ==
    \/ startup_event
    \/ connect
    \/ \E s \in AllSymbols, ts \in Timestamps : record_trade(s, ts, MaxTrades)
    \/ \E fail \in Fails, ret \in Rets : broadcaster_wake(fail, ret)
    \/ \E fail \in Fails, ret \in Rets : broadcaster_step(fail, ret)

SpecStaleBook == InitBooks({"stale"}) /\ [][NextStaleBook]_vars

\* The broadcaster loop while no client is connected, over an order book
\* that records more trades than one cycle broadcasts: the first with any
\* timestamp, the ones that follow with timestamp 1.
NextTradeCap ==
    \/ startup_event
    \/ \E ts \in Timestamps :
          /\ trade_log["AAPL"] = <<>> \/ ts = 1
          /\ record_trade("AAPL", ts, TradeCap + 1)
    \/ \E fail \in Fails, ret \in Rets : broadcaster_wake(fail, ret)

SpecTradeCap == InitBooks({"since", "plain"}) /\ [][NextTradeCap]_vars

(* ================================================================ claims *)
Terminal == {"completed", "stopped", "error"}

HistoryIds == {run_history[i].simulation_id : i \in 1..Len(run_history)}

\* this step removes the entry of id from the active table (only Stop does)
Removed(id) ==
    id \in DOMAIN active_simulations /\ id \notin DOMAIN active_simulations'

\* this step is the call of Stop(id): it suspends in its broadcast, or it
\* returns at once and leaves its answer
StopCalled(id) ==
    \/ \E h \in Handlers :
          /\ handlers[h].pc = "idle"
          /\ handlers'[h].pc = "bcast"
          /\ handlers'[h].op = "stop"
          /\ handlers'[h].sim_id = id
    \/ /\ handlers' = handlers
       /\ response' # response
       /\ response'.op = "stop"
       /\ response'.sim_id = id

\* this step is the first step of task t, in which RunSimulation returns
Returns(t) ==
    /\ t \in DOMAIN tasks
    /\ tasks[t].pc = "pending"
    /\ ~tasks[t].must_cancel
    /\ ready # <<>> /\ Head(ready) = t /\ ready' = Tail(ready)
    /\ run_history' # run_history

\* this step is the first step of task t, in which RunSimulation raises
Raises(t) ==
    /\ t \in DOMAIN tasks
    /\ tasks[t].pc = "pending"
    /\ ~tasks[t].must_cancel
    /\ ready # <<>> /\ Head(ready) = t /\ ready' = Tail(ready)
    /\ run_history' = run_history

\* this step ends task t's simulation_completed broadcast without a cancel
Finishes(t) ==
    /\ t \in DOMAIN tasks
    /\ tasks[t].pc = "bcast"
    /\ ~tasks[t].must_cancel
    /\ t \notin DOMAIN tasks'

\* C1: the simulation tasks that are alive together, each spawned by its own
\* Start call under the id that call returned, all carry different ids.
C1_UniqueIds ==
    \A t1 \in DOMAIN tasks, t2 \in DOMAIN tasks :
        t1 # t2 => tasks[t1].sim_id # tasks[t2].sim_id

\* C2: an entry whose status is completed, stopped or error keeps that status:
\* no step changes it in the table, and a Stop that takes the entry out of the
\* table does not re-mark it.
C2_TerminalIsFinal ==
    [][\A id \in DOMAIN active_simulations :
          active_simulations[id].status \in Terminal =>
             /\ (/\ id \in DOMAIN active_simulations'
                 /\ active_simulations'[id].task = active_simulations[id].task)
                   => active_simulations'[id].status = active_simulations[id].status
             /\ \A h \in Handlers :
                   (/\ handlers[h].pc = "idle"
                    /\ handlers'[h].pc = "bcast"
                    /\ handlers'[h].op = "stop"
                    /\ handlers'[h].sim_id = id)
                   => handlers'[h].simulation.status = active_simulations[id].status
      ]_vars

\* C3: every entry of the active table has status running, so the status
\* query answers running or NotFound and nothing else.
C3_ActiveAreRunning ==
    /\ \A id \in DOMAIN active_simulations :
          active_simulations[id].status = "running"
    /\ \A id \in SimIds : get_simulation_status(id) \in {"running", "404"}

\* C4: a Stop(id) called while id is active with status running leaves id out
\* of the active table and out of the history.
C4_StopDiscards ==
    [][\A id \in DOMAIN active_simulations :
          (active_simulations[id].status = "running" /\ StopCalled(id))
             => (id \notin DOMAIN active_simulations' /\ id \notin HistoryIds')
      ]_vars

\* C5: no simulation id is both stopped (a Stop of it went through) and
\* present in the history.
C5_OneOutcome ==
    /\ ~(/\ response.op = "stop"
         /\ response.resp = "stopped"
         /\ response.sim_id \in HistoryIds)
    /\ \A h \in Handlers :
          ~(handlers[h].op = "stop" /\ handlers[h].sim_id \in HistoryIds)

\* C6: the ids of the active table and the ids of the history are disjoint.
C6_ActiveHistoryDisjoint == DOMAIN active_simulations \cap HistoryIds = {}

\* C7: the stored history never holds more than 50 entries.
C7_HistoryBounded == Len(run_history) <= HistoryCap

\* C8: when RunSimulation returns for a task that was not cancelled, the entry
\* of its id gets the results and status completed and one history entry with
\* that id and the results is appended; and when its simulation_completed
\* broadcast ends, every connection registered from the start of the broadcast
\* to its end has been handed the event.
C8_CompletionRecordedAndBroadcast ==
    [][\A t \in DOMAIN tasks :
          /\ Returns(t) =>
                /\ tasks[t].sim_id \in DOMAIN active_simulations =>
                      /\ active_simulations'[tasks[t].sim_id].status = "completed"
                      /\ active_simulations'[tasks[t].sim_id].results # "None"
                /\ Len(run_history') = Len(run_history) + 1
                /\ SubSeq(run_history', 1, Len(run_history)) = run_history
                /\ run_history'[Len(run_history')].simulation_id = tasks[t].sim_id
                /\ run_history'[Len(run_history')].results # "None"
          /\ (Finishes(t) /\ tasks[t].sim_id \in DOMAIN active_simulations) =>
                (tasks[t].b.bstart \cap Range(active_connections))
                    \subseteq tasks[t].b.got
      ]_vars

\* C9: when RunSimulation raises for a task of id, the status of id becomes
\* error with the message attached, the history is not appended to and no
\* broadcast is begun.
C9_FailureRecorded ==
    [][\A t \in DOMAIN tasks :
          Raises(t) =>
             /\ tasks[t].sim_id \in DOMAIN active_simulations'
             /\ active_simulations'[tasks[t].sim_id].status = "error"
             /\ active_simulations'[tasks[t].sim_id].error = "msg"
             /\ run_history' = run_history
             /\ handlers' = handlers
             /\ t \notin DOMAIN tasks'
      ]_vars

\* C10: a Stop(id) for an id that is not in the active table answers NotFound
\* and leaves the active table, the history, the trade cursors and the
\* connections as they were, and begins no broadcast.
C10_StopUnknownIsNotFound ==
    [][\A id \in SimIds :
          (id \notin DOMAIN active_simulations /\ StopCalled(id)) =>
             /\ response'.resp = "404"
             /\ UNCHANGED <<active_simulations, run_history, last_trade_ts,
                            active_connections, handlers, tasks, ready>>
      ]_vars

\* a Stop of an unknown id has answered while a client is connected and
\* another simulation is active
C10_Witness ==
    /\ response.op = "stop"
    /\ response.resp = "404"
    /\ active_connections # <<>>
    /\ active_simulations # <<>>

(* ------------------------------------------------ claims on the broadcaster *)
\* this step is the broadcaster being resumed after the last send_text of a
\* broadcast: the broadcast returns to the loop
LoopBroadcastReturns ==
    /\ bl.pc \in {"send_snap", "send_trade"}
    /\ ~broadcast_more(bl.b)
    /\ bl' # bl

\* C11: when a broadcast to connections that stay registered throughout
\* returns and a send of it has failed, every one of these connections has
\* been sent the message, the caller goes on as after any broadcast (its
\* next statement has run), and the broadcast has removed no connection.
C11_SendFailureIsolated ==
    [][(/\ LoopBroadcastReturns
        /\ bl.b.failed # {}
        /\ Range(active_connections) = bl.b.bstart)
       => /\ bl.b.bstart \subseteq bl.b.got
          /\ bl.pc = "send_snap" => bl'.cy[bl.sym].fetched
          /\ bl.pc = "send_trade" /\ bl.todo = <<>> => bl'.cy[bl.sym].done
          /\ active_connections' = active_connections]_vars

\* a broadcast to two connections is about to return: the send to one of
\* them has raised, the other has been sent the message
C11_Witness ==
    /\ bl.pc \in {"send_snap", "send_trade"}
    /\ ~broadcast_more(bl.b)
    /\ Cardinality(bl.b.bstart) = 2
    /\ Range(active_connections) = bl.b.bstart
    /\ Cardinality(bl.b.failed) = 1
    /\ bl.b.got = bl.b.bstart

\* C12: when a broadcast returns, every connection that was registered when
\* it began and still is has been sent the message.
C12_DeliveredToAllThatStay ==
    [][LoopBroadcastReturns
       => (bl.b.bstart \cap Range(active_connections)) \subseteq bl.b.got]_vars

\* C13: no step lowers the cursor of a symbol, so the cursor after a cycle
\* is at least the cursor before it, whatever the order book has returned.
C13_CursorNeverRegresses ==
    [][\A s \in DOMAIN last_trade_ts :
          /\ s \in DOMAIN last_trade_ts'
          /\ last_trade_ts'[s] >= last_trade_ts[s]]_vars

\* C14: with order books whose logs only grow, no trade has been handed to
\* broadcast as a trade event in more than one cycle.
C14_NoTradeTwice ==
    \A s \in AllSymbols : \A i \in 1..Len(handed[s]) : handed[s][i] <= 1

\* two trades of a symbol have been handed over in two different cycles: the
\* cycle that handed over the second found the cursor at the first or above
C14_Witness ==
    \E s \in DOMAIN bl.cy :
        /\ Len(trade_log[s]) = 2
        /\ handed[s] = <<1, 1>>
        /\ bl.cy[s].fetched
        /\ bl.cy[s].c0 >= trade_log[s][1]
        /\ bl.cy[s].events = 1

Min(a, b) == IF a <= b THEN a ELSE b

\* C15: once the loop is through with a symbol in a cycle, it has handed
\* min(n, 50) trade events of the symbol to broadcast, n being the number of
\* trades above the cursor the cycle found, and the cursor is the greatest
\* timestamp of these n trades; with n = 0 there are no trade events and the
\* cursor is the one the cycle found.
C15_CycleBroadcastsNewTrades ==
    \A s \in DOMAIN bl.cy :
        bl.cy[s].done =>
            /\ bl.cy[s].events = Min(bl.cy[s].n, TradeCap)
            /\ bl.cy[s].n > 0 => Cursor(last_trade_ts, s) = bl.cy[s].mx
            /\ bl.cy[s].n = 0 => Cursor(last_trade_ts, s) = bl.cy[s].c0

\* a cycle has gone through a symbol with more than 50 new trades, the
\* oldest of them with the greatest timestamp: 50 were handed over, not the
\* oldest, and the cursor is at the timestamp of the oldest
C15_Witness ==
    \E s \in DOMAIN bl.cy :
        /\ bl.cy[s].done
        /\ bl.cy[s].n = TradeCap + 1
        /\ bl.cy[s].events = TradeCap
        /\ handed[s][1] = 0
        /\ trade_log[s][1] = 2
        /\ last_trade_ts[s] = 2

\* C16: when a cycle in which the processing of a symbol raised is over,
\* the snapshot of every other symbol of the engine has been broadcast in
\* that cycle and the loop has been through its trades.
C16_OtherSymbolsStillBroadcast ==
    (bl.pc = "sleep" /\ bl.raised \in AllSymbols)
        => \A s \in DOMAIN bl.cy \ {bl.raised} :
              bl.cy[s].snap /\ bl.cy[s].done

\* C17: once startup has created it, the broadcaster task is suspended in
\* its sleep or in a send of a broadcast, never finished, whatever was
\* raised in its cycles; and whenever it sleeps, its next cycle can start.
C17_LoopNeverEnds ==
    market_simulator =>
        /\ bl.pc \in {"sleep", "send_snap", "send_trade"}
        /\ bl.pc = "sleep" =>
              ENABLED (\E fail \in Fails, ret \in Rets :
                          broadcaster_wake(fail, ret))

\* a cycle has been ended by an exception and the loop is in its sleep
C17_Witness ==
    /\ bl.pc = "sleep"
    /\ bl.raised # "None"
    /\ \E s \in DOMAIN bl.cy : bl.cy[s].snap

(* ---------------------------------------------------- claims on shutdown *)
\* C18: when shutdown_event has run to its end, close has been called on
\* every connection that was in manager.active_connections when it began.
C18_ShutdownClosesRegistered ==
    sd.pc = "done" => sd.reg \subseteq sd.closed

\* C19: shutdown_event is never ended by an exception, and when it has run
\* to its end no simulation that was active when it began is in the table.
C19_ShutdownRunsToEnd ==
    /\ sd.pc # "failed"
    /\ sd.pc = "done" =>
          \A id \in DOMAIN active_simulations :
              active_simulations[id].task \notin sd.entries

(* ------------------------------------------------------- claims on Start *)
\* this step is Start returning its response for id: at once when there is
\* no connection to send simulation_started to, or after the last send
StartReturns(id) ==
    \/ /\ n_started' # n_started
       /\ handlers' = handlers
       /\ response'.sim_id = id
    \/ \E h \in Handlers :
          /\ handlers[h].pc = "bcast"
          /\ handlers[h].op = "start"
          /\ handlers[h].sim_id = id
          /\ handlers'[h].pc = "idle"

\* C20: when Start returns, its response says running, and the status query
\* for its id, asked in the state Start returns in, answers running (or 404,
\* when a Stop has taken the entry away while Start was broadcasting).
C20_StartReturnsWhileRunning ==
    [][\A id \in SimIds :
          StartReturns(id) =>
              /\ response'.op = "start"
              /\ response'.resp = "running"
              /\ get_simulation_status(id)' \in {"running", "404"}]_vars

(* ---------------------------------------------------- claims, continued *)
\* C21: a connection is in the registry at most once, however often it was
\* registered: the count is the number of connections, a broadcast comes by
\* it once, and one disconnect leaves nothing of it.
C21_RegisterIdempotent ==
    \A i \in 1..Len(active_connections) : \A j \in 1..Len(active_connections) :
        i # j => active_connections[i] # active_connections[j]

\* C22: the history query with limit L answers the last min(L, n) of the n
\* entries of the history, in the order of the history.
C22_HistoryLimit ==
    \A L \in 1..HistoryCap : history_query(L) = LastN(run_history, L)

\* C23: after startup the keys of the cursor map are the symbols the engine
\* knew when startup created the broadcaster task, and no others.
C23_CursorKeysFixed ==
    market_simulator => DOMAIN last_trade_ts = Symbols

\* C23, amended: after startup every symbol the engine knew at startup is a
\* key of the cursor map and every key is a symbol of the engine; a symbol
\* the engine gained later becomes a key in the first cycle that finds
\* trades of it, never without trades, and its cursor is moved like any other.
C23_CursorKeysGrow ==
    market_simulator =>
        /\ Symbols \subseteq DOMAIN last_trade_ts
        /\ DOMAIN last_trade_ts \subseteq Range(order_books)
        /\ \A s \in DOMAIN last_trade_ts \ Symbols :
              /\ trade_log[s] # <<>>
              /\ last_trade_ts[s] > 0
        /\ \A s \in DOMAIN bl.cy :
              (bl.cy[s].done /\ bl.cy[s].n > 0) =>
                  /\ s \in DOMAIN last_trade_ts
                  /\ last_trade_ts[s] = bl.cy[s].mx

\* a symbol the engine gained after startup has a cursor, and a trade of it
\* has been handed to broadcast
C23_Witness ==
    \E s \in DOMAIN last_trade_ts \ Symbols :
        \E i \in 1..Len(handed[s]) : handed[s][i] = 1

\* C24: when shutdown_event has run to its end the broadcaster task has
\* been cancelled, and it was in its sleep when that happened.
C24_LoopCancelledAtShutdown ==
    sd.pc = "done" => bl.pc = "cancelled"

\* C25: whenever the loop is in a send of a snapshot of a symbol, no trade
\* event of that symbol has been produced in the cycle; whenever it is in a
\* send of a trade event, the snapshot broadcast of its symbol has returned
\* in the same cycle; and from one send of a trade event to the next the trade
\* is the same or a later one of the list the order book returned.  Every
\* send to a connection is a send of the one broadcast the loop is in.
C25_SnapshotThenTradesInOrder ==
    [][/\ bl'.pc = "send_snap" =>
             /\ bl'.b.msg = <<"snapshot", bl'.sym>>
             /\ ~bl'.cy[bl'.sym].fetched
             /\ bl'.cy[bl'.sym].events = 0
       /\ bl'.pc = "send_trade" =>
             /\ bl'.b.msg[1] = "trade"
             /\ bl'.b.msg[2] = bl'.sym
             /\ bl'.cy[bl'.sym].snap
             /\ bl'.cy[bl'.sym].fetched
       /\ (bl.pc = "send_trade" /\ bl'.pc = "send_trade" /\ bl'.sym = bl.sym)
             => bl'.b.msg[3] >= bl.b.msg[3]]_vars

\* the loop is in a send of the second trade event of a symbol in a cycle
C25_Witness ==
    /\ bl.pc = "send_trade"
    /\ bl.cy[bl.sym].events = 2
    /\ bl.b.msg = <<"trade", bl.sym, 2>>
    /\ bl.b.got # {}

\* C26: every run_simulation task that has not finished and has not been
\* cancelled is the task of the active table's entry of its id.
C26_EveryUnitHasItsEntry ==
    \A t \in DOMAIN tasks :
        ~tasks[t].must_cancel =>
            /\ tasks[t].sim_id \in DOMAIN active_simulations
            /\ active_simulations[tasks[t].sim_id].task = t

\* C27: while Start is still inside its simulation_started broadcast, every
\* registered connection that has been sent simulation_completed or
\* simulation_stopped of the same id has been sent simulation_started.
C27_StartedBeforeCompleted ==
    \A h \in Handlers :
        (handlers[h].pc = "bcast" /\ handlers[h].op = "start") =>
            /\ \A t \in DOMAIN tasks :
                  (tasks[t].pc = "bcast" /\ tasks[t].sim_id = handlers[h].sim_id)
                      => (tasks[t].b.got \cap Range(active_connections))
                             \subseteq handlers[h].b.got
            /\ \A k \in Handlers :
                  (/\ handlers[k].pc = "bcast"
                   /\ handlers[k].op = "stop"
                   /\ handlers[k].sim_id = handlers[h].sim_id)
                      => (handlers[k].b.got \cap Range(active_connections))
                             \subseteq handlers[h].b.got

\* C28: between two cycles every recorded trade whose timestamp is not above
\* the cursor of its symbol has been handed to broadcast as a trade event.
\* (No later fetch returns a trade at or below the cursor, so a trade for
\* which this fails is never handed over.)
C28_NoTradeSkipped ==
    bl.pc = "sleep" =>
        \A s \in DOMAIN last_trade_ts : \A i \in 1..Len(trade_log[s]) :
            trade_log[s][i] <= last_trade_ts[s] => handed[s][i] >= 1

\* C29: no simulation id has both an entry in the run history and the status
\* error in the active table.
C29_NoErrorAfterHistory ==
    \A id \in DOMAIN active_simulations :
        active_simulations[id].status = "error" => id \notin HistoryIds

\* C30: no two Stop calls are inside a simulation_stopped broadcast for the
\* same simulation id: of the Stop calls for one id only one gets past the
\* membership test, so simulation_stopped goes out once per id.
C30_StoppedOncePerId ==
    \A h, k \in Handlers :
        (/\ h # k
         /\ handlers[h].pc = "bcast" /\ handlers[h].op = "stop"
         /\ handlers[k].pc = "bcast" /\ handlers[k].op = "stop")
            => handlers[h].sim_id # handlers[k].sim_id
====
